---- MODULE Spec2Model ----
(***************************************************************************)
(* Model of opyndata.data_import: the export of time series from a store   *)
(* of recordings (recording -> sensor group -> sensor -> component).       *)
(*                                                                         *)
(* A container of the store is a sequence of named children, in the        *)
(* store's iteration order; child names are unique within a container.     *)
(* A number (a sample, a time) is an exact rational <<num, den>> with      *)
(* den > 0, so that "evenly spaced" and "exactly 0 / exactly duration"     *)
(* are decidable; floating point rounding is not modelled.  The            *)
(* missing-value marker of a table (NaN / NaT) is <<>>.                    *)
(***************************************************************************)
EXTENDS Integers, Sequences, FiniteSets, TLC

VARIABLES hf, call, args, pc, result

vars == <<hf, call, args, pc, result>>

-----------------------------------------------------------------------------
(* Bounds of the model *)

MaxLen == 3
MaxDecim == 3
MaxDuration == 2
MaxStart == 2
MaxRecs == 2

-----------------------------------------------------------------------------
(* Containers: ordered mappings child name -> child *)

Keys(c) == [i \in DOMAIN c |-> c[i].name]

Has(c, k) == \E i \in DOMAIN c : c[i].name = k

Get(c, k) == c[CHOOSE i \in DOMAIN c : c[i].name = k]

RECURSIVE Concat(_)
Concat(ss) == IF ss = <<>> THEN <<>> ELSE Head(ss) \o Concat(Tail(ss))

-----------------------------------------------------------------------------
(* The stores the model explores *)

Arr(base, len) == [i \in 1..len |-> <<base + (i - 1), 1>>]

\* a component: a dataset with its samples and its statistics attributes
Comp(n, base, len) ==
    [name |-> n, kind |-> "dataset", data |-> Arr(base, len),
     attrs |-> ("mean" :> <<base, 1>>) @@ ("std" :> <<base + 1, 1>>)]

\* a component without the std attribute
CompNoStd(n, base, len) ==
    [name |-> n, kind |-> "dataset", data |-> Arr(base, len),
     attrs |-> ("mean" :> <<base, 1>>)]

\* a child that is itself a group, not a dataset
SubGroup(n) == [name |-> n, kind |-> "group", data |-> << >>, attrs |-> << >>]

Labelled(l) == "label" :> l

\* wave/h_sensor/h and wind/U_sensor/{U,V}
LayWaveWind(len) ==
    << [name |-> "wave", sensors |->
          << [name |-> "h_sensor", attrs |-> Labelled("H1"),
              comps |-> << Comp("h", 10, len) >>] >>],
       [name |-> "wind", sensors |->
          << [name |-> "U_sensor", attrs |-> Labelled("A1"),
              comps |-> << Comp("U", 20, len), Comp("V", 30, len) >>] >>] >>

\* two groups hold a sensor of the same name
LayDup(len) ==
    << [name |-> "acceleration", sensors |->
          << [name |-> "s1", attrs |-> Labelled("A1"),
              comps |-> << Comp("x", 40, len), Comp("y", 50, len) >>] >>],
       [name |-> "wave", sensors |->
          << [name |-> "s1", attrs |-> Labelled("W1"),
              comps |-> << Comp("x", 60, len), Comp("h", 70, len) >>] >>] >>

\* two sensors of one group share the display name of the name_from attribute
LaySameLabel(len) ==
    << [name |-> "acceleration", sensors |->
          << [name |-> "a1", attrs |-> Labelled("P"),
              comps |-> << Comp("x", 40, len) >>],
             [name |-> "a2", attrs |-> Labelled("P"),
              comps |-> << Comp("x", 50, len) >>] >>] >>

\* a recording with no sensor group
LayEmpty(len) == << >>

\* the components do not have the same length
LayRagged(len) ==
    << [name |-> "wave", sensors |->
          << [name |-> "h_sensor", attrs |-> Labelled("H1"),
              comps |-> << Comp("h", 10, len) >>] >>],
       [name |-> "wind", sensors |->
          << [name |-> "U_sensor", attrs |-> Labelled("A1"),
              comps |-> << Comp("U", 20, len + 1) >>] >>] >>

\* a sensor without the name_from attribute, and a group without sensors
LayBare(len) ==
    << [name |-> "wave", sensors |->
          << [name |-> "h_sensor", attrs |-> << >>,
              comps |-> << Comp("h", 10, len) >>] >>],
       [name |-> "wind", sensors |-> << >>] >>

\* the second recording shape of the statistics stores: a component more, and
\* one without the std attribute
LayWaveExtra(len) ==
    << [name |-> "wave", sensors |->
          << [name |-> "h_sensor", attrs |-> Labelled("H1"),
              comps |-> << Comp("h", 10, len), Comp("z", 80, len) >>] >>] >>

LayNoStd(len) ==
    << [name |-> "wave", sensors |->
          << [name |-> "h_sensor", attrs |-> Labelled("H1"),
              comps |-> << Comp("h", 10, len) >>] >>],
       [name |-> "wind", sensors |->
          << [name |-> "U_sensor", attrs |-> Labelled("A1"),
              comps |-> << CompNoStd("U", 20, len) >>] >>] >>

\* two groups hold a sensor of the same name, and a component of the one in
\* the group visited first has no std attribute
LayDupNoStd(len) ==
    << [name |-> "acceleration", sensors |->
          << [name |-> "s1", attrs |-> Labelled("A1"),
              comps |-> << CompNoStd("x", 40, len) >>] >>],
       [name |-> "wave", sensors |->
          << [name |-> "s1", attrs |-> Labelled("W1"),
              comps |-> << Comp("x", 60, len), Comp("h", 70, len) >>] >>] >>

\* the subtree of the reserved root key: field / sensor group / sensor / component
GlobalStatsTree ==
    << [name |-> "mean", sensors |->
          << [name |-> "wave", attrs |-> << >>,
              comps |-> << SubGroup("h_sensor") >>] >>] >>

Layouts(len) ==
    { LayWaveWind(len), LayDup(len), LaySameLabel(len), LayEmpty(len),
      LayRagged(len), LayBare(len) }

\* attributes of a recording: any of samplerate, duration, starttime
NoAttrs == << >>

DurationOnly(d) == "duration" :> d

Timed(d) == ("samplerate" :> 2) @@ ("duration" :> d)

Started(d, s) == ("samplerate" :> 2) @@ ("duration" :> d) @@ ("starttime" :> s)

Rec(n, attrs, groups) == [name |-> n, attrs |-> attrs, groups |-> groups]

-----------------------------------------------------------------------------
(* Numbers *)

NaN == << >>

Num(n) == <<n, 1>>

REq(a, b) == a # NaN /\ b # NaN /\ a[1] * b[2] = b[1] * a[2]

RLeq(a, b) == a # NaN /\ b # NaN /\ a[1] * b[2] <= b[1] * a[2]

RAdd(a, b) == <<a[1] * b[2] + b[1] * a[2], a[2] * b[2]>>

RSub(a, b) == <<a[1] * b[2] - b[1] * a[2], a[2] * b[2]>>

\* as linspace, but without the end point: arange(num) * (stop / num)
linspace_NoEndpoint(stop, num) == [i \in 1..num |-> <<(i - 1) * stop, num>>]

\* np.linspace(0, stop, num): arange(num) * (stop / (num - 1)), the last value
\* set to stop when num > 1; a single value is the start, 0
linspace(stop, num) ==
    [i \in 1..num |->
        IF num = 1 THEN Num(0)
        ELSE IF i = num THEN Num(stop)
        ELSE <<(i - 1) * stop, num - 1>>]

\* as Decimate, but only whole blocks of ds values give a value
RECURSIVE Decimate_WholeBlocks(_, _)
Decimate_WholeBlocks(a, ds) ==
    IF Len(a) < ds THEN << >>
    ELSE <<Head(a)>> \o Decimate_WholeBlocks(SubSeq(a, ds + 1, Len(a)), ds)

\* a[::ds], ds >= 1: the first value, then the same of what follows the next ds - 1
RECURSIVE Decimate(_, _)
Decimate(a, ds) ==
    IF a = << >> THEN << >>
    ELSE <<Head(a)>> \o Decimate(SubSeq(a, ds + 1, Len(a)), ds)

-----------------------------------------------------------------------------
(* Python dict (insertion ordered): a sequence of [key, val] *)

DictKeys(d) == [i \in DOMAIN d |-> d[i].key]

DictHas(d, k) == \E i \in DOMAIN d : d[i].key = k

DictGet(d, k) == d[CHOOSE i \in DOMAIN d : d[i].key = k].val

\* d[k] = v: a present key keeps its place and takes the new value
SetItem(d, k, v) ==
    IF DictHas(d, k)
    THEN [i \in DOMAIN d |-> IF d[i].key = k THEN [key |-> k, val |-> v] ELSE d[i]]
    ELSE Append(d, [key |-> k, val |-> v])

DelItem(d, k) == SelectSeq(d, LAMBDA e : e.key # k)

-----------------------------------------------------------------------------
(* Outcomes: a returned value, or a raised exception *)

Return(v) == [exc |-> "", value |-> v]

Raise(e) == [exc |-> e, value |-> << >>]

\* component_dict: None, a dict {key: [component, ...]}, or anything else
NoneDict == [kind |-> "none", map |-> << >>]

Dict(m) == [kind |-> "dict", map |-> m]

NotADict == [kind |-> "other", map |-> << >>]

-----------------------------------------------------------------------------
(* export_from_hdf *)

\* as get_valid_components, but the listed components in the order of the store
get_valid_components_StoreOrder(kw, sensor_group, sensor, components) ==
    LET check_val == IF kw.lookup_sensor_groups THEN sensor_group ELSE sensor
    IN  IF kw.component_dict.kind = "dict"
        THEN IF check_val \in DOMAIN kw.component_dict.map
             THEN LET listed == kw.component_dict.map[check_val]
                  IN  Return(SelectSeq(components,
                          LAMBDA c : \E i \in DOMAIN listed : listed[i] = c))
             ELSE Return(<< >>)
        ELSE IF kw.component_dict.kind = "none"
        THEN Return(components)
        ELSE Raise("ValueError: Wrong format")

get_valid_components(kw, sensor_group, sensor, components) ==
    LET check_val == IF kw.lookup_sensor_groups THEN sensor_group ELSE sensor
    IN  IF kw.component_dict.kind = "dict"
        THEN IF check_val \in DOMAIN kw.component_dict.map
             THEN Return(kw.component_dict.map[check_val])
             ELSE Return(<< >>)
        ELSE IF kw.component_dict.kind = "none"
        THEN Return(components)
        ELSE Raise("ValueError: Wrong format")

\* the column key of a component
ColumnKey(sensor_name, level_separator, c) == sensor_name \o level_separator \o c

\* as ComponentLoop, but a listed component the sensor lacks is passed over
RECURSIVE ComponentLoop_SkipMissing(_, _, _, _, _)
ComponentLoop_SkipMissing(st, cs, kw, sensor_group, sensor) ==
    IF cs = << >> \/ st.exc # "" THEN st
    ELSE LET c == Head(cs)
             taken == Append(st.resolved, <<sensor_group, sensor.name, c>>)
         IN  IF kw.name_from # "None" /\ kw.name_from \notin DOMAIN sensor.attrs
             THEN [st EXCEPT !.exc = "KeyError", !.resolved = taken]
             ELSE IF ~Has(sensor.comps, c)
             THEN ComponentLoop_SkipMissing(st, Tail(cs), kw, sensor_group, sensor)
             ELSE IF Get(sensor.comps, c).kind # "dataset"
             THEN [st EXCEPT !.exc = "TypeError", !.resolved = taken]
             ELSE LET sensor_name == IF kw.name_from # "None"
                                     THEN sensor.attrs[kw.name_from]
                                     ELSE sensor.name
                      sc == ColumnKey(sensor_name, kw.level_separator, c)
                      column == Decimate(Get(sensor.comps, c).data,
                                         kw.decimation_factor)
                  IN  ComponentLoop_SkipMissing(
                          [st EXCEPT !.sensor_data = SetItem(@, sc, column),
                                     !.resolved = taken],
                          Tail(cs), kw, sensor_group, sensor)

\* for c in get_valid_components(): ...   (st.resolved lists the triples taken)
RECURSIVE ComponentLoop(_, _, _, _, _)
ComponentLoop(st, cs, kw, sensor_group, sensor) ==
    IF cs = << >> \/ st.exc # "" THEN st
    ELSE LET c == Head(cs)
             taken == Append(st.resolved, <<sensor_group, sensor.name, c>>)
         IN  IF kw.name_from # "None" /\ kw.name_from \notin DOMAIN sensor.attrs
             THEN [st EXCEPT !.exc = "KeyError", !.resolved = taken]
             ELSE IF ~Has(sensor.comps, c)
             THEN [st EXCEPT !.exc = "KeyError", !.resolved = taken]
             ELSE IF Get(sensor.comps, c).kind # "dataset"
             THEN [st EXCEPT !.exc = "TypeError", !.resolved = taken]
             ELSE LET sensor_name == IF kw.name_from # "None"
                                     THEN sensor.attrs[kw.name_from]
                                     ELSE sensor.name
                      sc == ColumnKey(sensor_name, kw.level_separator, c)
                      column == Decimate(Get(sensor.comps, c).data,
                                         kw.decimation_factor)
                  IN  ComponentLoop(
                          [st EXCEPT !.sensor_data = SetItem(@, sc, column),
                                     !.resolved = taken],
                          Tail(cs), kw, sensor_group, sensor)

\* for sensor in sensors_in_group: ...
RECURSIVE SensorLoop(_, _, _, _)
SensorLoop(st, sensors, kw, sensor_group) ==
    IF sensors = << >> \/ st.exc # "" THEN st
    ELSE LET sensor == Head(sensors)
             valid == get_valid_components(kw, sensor_group, sensor.name,
                                           Keys(sensor.comps))
         IN  IF valid.exc # ""
             THEN [st EXCEPT !.exc = valid.exc]
             ELSE SensorLoop(
                      ComponentLoop(st, valid.value, kw, sensor_group, sensor),
                      Tail(sensors), kw, sensor_group)

\* for sensor_group in sensor_groups: ...
RECURSIVE GroupLoop(_, _, _)
GroupLoop(st, groups, kw) ==
    IF groups = << >> \/ st.exc # "" THEN st
    ELSE GroupLoop(SensorLoop(st, Head(groups).sensors, kw, Head(groups).name),
                   Tail(groups), kw)

\* the time axis, from the length of the first array of sensor_data
TimeAxis(st, hf_recording, kw) ==
    IF st.exc # "" THEN st
    ELSE IF "samplerate" \in DOMAIN hf_recording.attrs
            /\ "duration" \in DOMAIN hf_recording.attrs
            /\ kw.return_t
    THEN IF st.sensor_data = << >>
         THEN [st EXCEPT !.exc = "IndexError"]
         ELSE [st EXCEPT !.sensor_data =
                  SetItem(@, "t", linspace(hf_recording.attrs["duration"],
                                           Len(st.sensor_data[1].val)))]
    ELSE st

SameLength(d) == \A i, j \in DOMAIN d : Len(d[i].val) = Len(d[j].val)

RangeIndex(n) == [i \in 1..n |-> Num(i - 1)]

\* pd.DataFrame.from_dict(d): the columns in insertion order, a RangeIndex
DataFrameFromDict(d) ==
    IF ~SameLength(d) THEN Raise("ValueError: lengths")
    ELSE Return([kind |-> "dataframe", cols |-> d,
                 index |-> RangeIndex(IF d = << >> THEN 0 ELSE Len(d[1].val)),
                 index_name |-> "None"])

\* np.vstack(list(d.values())).T, list(d.keys())
VStackT(d) ==
    IF d = << >> \/ ~SameLength(d) THEN Raise("ValueError: lengths")
    ELSE Return([kind |-> "array",
                 rows |-> [r \in 1..Len(d[1].val) |->
                              [i \in DOMAIN d |-> d[i].val[r]]],
                 labels |-> DictKeys(d)])

\* as ReturnAs, but the table is indexed by its time column
ReturnAs_TimeIndexed(sensor_data, return_as) ==
    CASE return_as = "array" -> VStackT(sensor_data)
      [] return_as = "dataframe" ->
            LET out == DataFrameFromDict(sensor_data)
            IN  IF out.exc = "" /\ DictHas(sensor_data, "t")
                THEN Return([kind |-> "dataframe",
                             cols |-> DelItem(sensor_data, "t"),
                             index |-> DictGet(sensor_data, "t"),
                             index_name |-> "t"])
                ELSE out
      [] return_as = "dict" -> Return([kind |-> "dict", items |-> sensor_data])
      [] OTHER -> Raise("ValueError: return_as")

ReturnAs(sensor_data, return_as) ==
    CASE return_as = "array" -> VStackT(sensor_data)
      [] return_as = "dataframe" -> DataFrameFromDict(sensor_data)
      [] return_as = "dict" -> Return([kind |-> "dict", items |-> sensor_data])
      [] OTHER -> Raise("ValueError: return_as")

\* as export_from_hdf, but return_as is validated before anything is read
export_from_hdf_KindFirst(hf_recording, kw) ==
    LET st0 == [sensor_data |-> << >>, resolved |-> << >>, exc |-> ""]
        st == TimeAxis(GroupLoop(st0, hf_recording.groups, kw), hf_recording, kw)
        out == IF kw.return_as \notin {"array", "dataframe", "dict"}
               THEN Raise("ValueError: return_as")
               ELSE IF st.exc # "" THEN Raise(st.exc)
               ELSE ReturnAs(st.sensor_data, kw.return_as)
    IN  [exc |-> out.exc, value |-> out.value, resolved |-> st.resolved]

\* the whole call; the outcome also carries the triples the loop took
export_from_hdf(hf_recording, kw) ==
    LET st0 == [sensor_data |-> << >>, resolved |-> << >>, exc |-> ""]
        st == TimeAxis(GroupLoop(st0, hf_recording.groups, kw), hf_recording, kw)
        out == IF st.exc # "" THEN Raise(st.exc)
               ELSE ReturnAs(st.sensor_data, kw.return_as)
    IN  [exc |-> out.exc, value |-> out.value, resolved |-> st.resolved]

-----------------------------------------------------------------------------
(* pandas tables: [cols: dict of columns, index, index_name] *)

EmptyDataFrame ==
    [kind |-> "dataframe", cols |-> << >>, index |-> << >>, index_name |-> "None"]

\* 't' in df
HasColumn(df, k) == DictHas(df.cols, k)

NRows(df) == Len(df.index)

ColumnSet(df) == {df.cols[i].key : i \in DOMAIN df.cols}

Missing(n) == [i \in 1..n |-> NaN]

\* as DataFrameAppend, but keeping only the columns both tables have
DataFrameAppend_Inner(df_full, df) ==
    LET common == SelectSeq(df_full.cols, LAMBDA e : DictHas(df.cols, e.key))
    IN  [kind |-> "dataframe",
         cols |-> [i \in DOMAIN common |->
                      [key |-> common[i].key,
                       val |-> common[i].val \o DictGet(df.cols, common[i].key)]],
         index |-> df_full.index \o df.index,
         index_name |-> df_full.index_name]

\* df_full.append(df): the rows of df after those of df_full, the columns of
\* df_full followed by the new ones of df, the absent cells missing
DataFrameAppend(df_full, df) ==
    LET old == [i \in DOMAIN df_full.cols |->
                   [key |-> df_full.cols[i].key,
                    val |-> df_full.cols[i].val \o
                            (IF HasColumn(df, df_full.cols[i].key)
                             THEN DictGet(df.cols, df_full.cols[i].key)
                             ELSE Missing(NRows(df)))]]
        new == SelectSeq(df.cols, LAMBDA e : ~HasColumn(df_full, e.key))
    IN  [kind |-> "dataframe",
         cols |-> old \o [i \in DOMAIN new |->
                             [key |-> new[i].key,
                              val |-> Missing(NRows(df_full)) \o new[i].val]],
         index |-> df_full.index \o df.index,
         index_name |-> df_full.index_name]

\* df.set_index(k): column k becomes the index and leaves the columns
set_index(df, k) ==
    [kind |-> "dataframe", cols |-> DelItem(df.cols, k),
     index |-> DictGet(df.cols, k), index_name |-> k]

\* as ToAbsolute, but the start time is left out
ToAbsolute_Relative(starttime, t) == t

\* pd.to_datetime(starttime) + pd.to_timedelta(t, unit='s')
ToAbsolute(starttime, t) == [i \in DOMAIN t |-> RAdd(Num(starttime), t[i])]

-----------------------------------------------------------------------------
(* export_from_multirec_hdf *)

\* as RecStep, but the start time is that of the first recording of the store
RecStep_FirstStart(st, store, rec_name, kw) ==
    IF ~Has(store, rec_name) THEN [st EXCEPT !.exc = "KeyError"]
    ELSE LET rec == Get(store, rec_name)
             out == export_from_hdf(rec, [kw EXCEPT !.return_as = "dataframe"])
         IN  IF out.exc # "" THEN [st EXCEPT !.exc = out.exc]
             ELSE IF HasColumn(out.value, "t")
             THEN IF "starttime" \notin DOMAIN store[1].attrs
                  THEN [st EXCEPT !.exc = "KeyError", !.df = out.value, !.bound = TRUE]
                  ELSE LET df == [out.value EXCEPT !.cols =
                                     SetItem(@, "t",
                                         ToAbsolute(store[1].attrs["starttime"],
                                                    DictGet(@, "t")))]
                       IN  [st EXCEPT !.df_full = DataFrameAppend(@, df),
                                      !.df = df, !.bound = TRUE]
             ELSE [st EXCEPT !.df_full = DataFrameAppend(@, out.value),
                             !.df = out.value, !.bound = TRUE]

\* as RecStep, but a name the store does not have is passed over
RecStep_SkipUnknown(st, store, rec_name, kw) ==
    IF ~Has(store, rec_name) THEN st
    ELSE LET rec == Get(store, rec_name)
             out == export_from_hdf(rec, [kw EXCEPT !.return_as = "dataframe"])
         IN  IF out.exc # "" THEN [st EXCEPT !.exc = out.exc]
             ELSE IF HasColumn(out.value, "t")
             THEN IF "starttime" \notin DOMAIN rec.attrs
                  THEN [st EXCEPT !.exc = "KeyError", !.df = out.value, !.bound = TRUE]
                  ELSE LET df == [out.value EXCEPT !.cols =
                                     SetItem(@, "t",
                                         ToAbsolute(rec.attrs["starttime"],
                                                    DictGet(@, "t")))]
                       IN  [st EXCEPT !.df_full = DataFrameAppend(@, df),
                                      !.df = df, !.bound = TRUE]
             ELSE [st EXCEPT !.df_full = DataFrameAppend(@, out.value),
                             !.df = out.value, !.bound = TRUE]

\* the body of the loop over rec_names, for one recording
RecStep(st, store, rec_name, kw) ==
    IF ~Has(store, rec_name) THEN [st EXCEPT !.exc = "KeyError"]
    ELSE LET rec == Get(store, rec_name)
             out == export_from_hdf(rec, [kw EXCEPT !.return_as = "dataframe"])
         IN  IF out.exc # "" THEN [st EXCEPT !.exc = out.exc]
             ELSE IF HasColumn(out.value, "t")
             THEN IF "starttime" \notin DOMAIN rec.attrs
                  THEN [st EXCEPT !.exc = "KeyError", !.df = out.value, !.bound = TRUE]
                  ELSE LET df == [out.value EXCEPT !.cols =
                                     SetItem(@, "t",
                                         ToAbsolute(rec.attrs["starttime"],
                                                    DictGet(@, "t")))]
                       IN  [st EXCEPT !.df_full = DataFrameAppend(@, df),
                                      !.df = df, !.bound = TRUE]
             ELSE [st EXCEPT !.df_full = DataFrameAppend(@, out.value),
                             !.df = out.value, !.bound = TRUE]

\* as RecLoop, but the recordings are taken last first
RECURSIVE RecLoop_Reversed(_, _, _, _)
RecLoop_Reversed(st, store, names, kw) ==
    IF names = << >> \/ st.exc # "" THEN st
    ELSE RecLoop_Reversed(
             RecStep([st EXCEPT !.read = Append(@, names[Len(names)])],
                     store, names[Len(names)], kw),
             store, SubSeq(names, 1, Len(names) - 1), kw)

\* for rec_name in rec_names: ...   (st.read lists the keys looked up in hf)
RECURSIVE RecLoop(_, _, _, _)
RecLoop(st, store, names, kw) ==
    IF names = << >> \/ st.exc # "" THEN st
    ELSE RecLoop(RecStep([st EXCEPT !.read = Append(@, Head(names))],
                         store, Head(names), kw),
                 store, Tail(names), kw)

\* after the loop: the index is set from the last df
SetTimeIndex(st) ==
    IF ~st.bound THEN Raise("UnboundLocalError")
    ELSE IF HasColumn(st.df, "t") THEN Return(set_index(st.df_full, "t"))
    ELSE Return(st.df_full)

export_from_multirec_hdf(store, rec_names, kw) ==
    LET names == IF rec_names.all THEN Keys(store) ELSE rec_names.list
        st0 == [df_full |-> EmptyDataFrame, df |-> EmptyDataFrame,
                bound |-> FALSE, exc |-> "", read |-> << >>]
        st == RecLoop(st0, store, names, kw)
        out == IF st.exc # "" THEN Raise(st.exc) ELSE SetTimeIndex(st)
    IN  [exc |-> out.exc, value |-> out.value, read |-> st.read]

-----------------------------------------------------------------------------
(* Statistics: get_stats, get_stats_multi, convert_stats *)

\* sensor_dict.update(new_dict), item by item
RECURSIVE Update(_, _)
Update(d, items) ==
    IF items = << >> THEN d
    ELSE Update(SetItem(d, Head(items).key, Head(items).val), Tail(items))

\* misc.create_sensor_dict: sensor name -> group name; a sensor name met again
\* in a later group keeps its place and takes the later group
RECURSIVE create_sensor_dict_Loop(_, _)
create_sensor_dict_Loop(sensor_dict, groups) ==
    IF groups = << >> THEN sensor_dict
    ELSE LET g == Head(groups)
             new_dict == [i \in DOMAIN g.sensors |->
                             [key |-> g.sensors[i].name, val |-> g.name]]
         IN  create_sensor_dict_Loop(Update(sensor_dict, new_dict), Tail(groups))

create_sensor_dict(hf_recording) == create_sensor_dict_Loop(<< >>, hf_recording.groups)

\* a Python dict as a function of its keys
DictAsMap(d) == [k \in {d[i].key : i \in DOMAIN d} |-> DictGet(d, k)]

\* misc.time_axis: component is "None" for None, sensor_dict None or a dict;
\* starttime is not read
time_axis(hf_recording, sensor_name, component, sensor_dict, starttime) ==
    LET map == IF sensor_dict.kind = "none"
               THEN DictAsMap(create_sensor_dict(hf_recording))
               ELSE sensor_dict.map
    IN  IF sensor_name \notin DOMAIN map THEN Raise("KeyError")
        ELSE IF ~Has(hf_recording.groups, map[sensor_name]) THEN Raise("KeyError")
        ELSE IF ~Has(Get(hf_recording.groups, map[sensor_name]).sensors, sensor_name)
        THEN Raise("KeyError")
        ELSE LET sensor == Get(Get(hf_recording.groups, map[sensor_name]).sensors,
                               sensor_name)
             IN  IF component = "None" /\ sensor.comps = << >>
                 THEN Raise("IndexError")
                 ELSE IF "duration" \notin DOMAIN hf_recording.attrs
                 THEN Raise("KeyError")
                 ELSE LET c == IF component = "None" THEN sensor.comps[1].name
                               ELSE component
                      IN  IF ~Has(sensor.comps, c) THEN Raise("KeyError")
                          ELSE Return(linspace(hf_recording.attrs["duration"],
                                               Len(Get(sensor.comps, c).data)))

\* get_stats: sensor -> component -> field -> the component's attribute, for
\* the sensors of create_sensor_dict, each read in the group the dict gives
get_stats(hf_recording, fields) ==
    LET sensor_dict == create_sensor_dict(hf_recording)
        sensor(i) == Get(Get(hf_recording.groups, sensor_dict[i].val).sensors,
                         sensor_dict[i].key)
        of(component) == Update(<< >>, [f \in DOMAIN fields |->
                                          [key |-> fields[f],
                                           val |-> component.attrs[fields[f]]]])
    IN  IF \E i \in DOMAIN sensor_dict :
              \E c \in DOMAIN sensor(i).comps : \E f \in DOMAIN fields :
                 fields[f] \notin DOMAIN sensor(i).comps[c].attrs
        THEN Raise("KeyError")
        ELSE Return([i \in DOMAIN sensor_dict |->
                        [key |-> sensor_dict[i].key,
                         val |-> [c \in DOMAIN sensor(i).comps |->
                                     [key |-> sensor(i).comps[c].name,
                                      val |-> of(sensor(i).comps[c])]]]])

\* rec_names.remove(el): the first occurrence goes
RemoveFirst(names, el) ==
    LET i == CHOOSE j \in DOMAIN names :
                 names[j] = el /\ \A k \in 1..(j - 1) : names[k] # el
    IN  SubSeq(names, 1, i - 1) \o SubSeq(names, i + 1, Len(names))

\* for el in list(avoid): rec_names.remove(el)
RECURSIVE RemoveAvoided(_, _)
RemoveAvoided(names, avoid) ==
    IF avoid = << >> THEN Return(names)
    ELSE IF \A i \in DOMAIN names : names[i] # Head(avoid)
    THEN Raise("ValueError: remove")
    ELSE RemoveAvoided(RemoveFirst(names, Head(avoid)), Tail(avoid))

\* the list the caller passed as rec_names, after the loop over avoid: what
\* was removed before an entry was not found stays removed
RECURSIVE RemovedFrom(_, _)
RemovedFrom(names, avoid) ==
    IF avoid = << >> \/ \A i \in DOMAIN names : names[i] # Head(avoid)
    THEN names
    ELSE RemovedFrom(RemoveFirst(names, Head(avoid)), Tail(avoid))

\* pd.DataFrame(rec_names, columns=['recording'])
RecordingFrame(rec_names) ==
    [kind |-> "dataframe", cols |-> <<[key |-> "recording", val |-> rec_names]>>,
     index |-> RangeIndex(Len(rec_names)), index_name |-> "None"]

\* df.at[ix, col] = v: a new column comes last, missing in the other rows
At(df, ix, col, v) ==
    IF HasColumn(df, col)
    THEN [df EXCEPT !.cols = SetItem(@, col, [DictGet(@, col) EXCEPT ![ix] = v])]
    ELSE [df EXCEPT !.cols =
             Append(@, [key |-> col,
                        val |-> [Missing(NRows(df)) EXCEPT ![ix] = v]])]

\* col_name = f'{sensor_group}/{sensor}/{comp}'
StatsColName(sensor_group, sensor, comp) ==
    sensor_group \o "/" \o sensor \o "/" \o comp

\* the components the three inner loops over a recording visit, in their order
StatsComponents(rec) ==
    Concat([g \in DOMAIN rec.groups |->
        Concat([s \in DOMAIN rec.groups[g].sensors |->
            [c \in DOMAIN rec.groups[g].sensors[s].comps |->
                [col_name |-> StatsColName(rec.groups[g].name,
                                           rec.groups[g].sensors[s].name,
                                           rec.groups[g].sensors[s].comps[c].name),
                 attrs |-> rec.groups[g].sensors[s].comps[c].attrs]]])])

\* row ix of the table of a field, filled component by component
RECURSIVE FillRow(_, _, _, _)
FillRow(df, ix, comps, field) ==
    IF comps = << >> THEN df
    ELSE FillRow(At(df, ix, Head(comps).col_name, Head(comps).attrs[field]),
                 ix, Tail(comps), field)

\* as StatsRecStep, but the components are those of the first recording of
\* the list, read in the current one
StatsRecStep_FirstTriples(st, store, rec_names, ix, fields) ==
    IF ~Has(store, rec_names[ix]) \/ ~Has(store, rec_names[1])
    THEN [st EXCEPT !.exc = "KeyError"]
    ELSE LET first == StatsComponents(Get(store, rec_names[1]))
             own == StatsComponents(Get(store, rec_names[ix]))
             comps == SelectSeq(own, LAMBDA e :
                          \E i \in DOMAIN first : first[i].col_name = e.col_name)
         IN  IF \/ Len(comps) # Len(first)
                \/ \E i \in DOMAIN comps : \E f \in DOMAIN fields :
                      fields[f] \notin DOMAIN comps[i].attrs
             THEN [st EXCEPT !.exc = "KeyError"]
             ELSE [st EXCEPT !.stats_df =
                      [t \in DOMAIN st.stats_df |->
                          [key |-> st.stats_df[t].key,
                           val |-> FillRow(st.stats_df[t].val, ix, comps,
                                           st.stats_df[t].key)]]]

\* the body of the loop over enumerate(rec_names), for one recording
StatsRecStep(st, store, rec_names, ix, fields) ==
    IF ~Has(store, rec_names[ix]) THEN [st EXCEPT !.exc = "KeyError"]
    ELSE LET comps == StatsComponents(Get(store, rec_names[ix]))
         IN  IF \E i \in DOMAIN comps : \E f \in DOMAIN fields :
                   fields[f] \notin DOMAIN comps[i].attrs
             THEN [st EXCEPT !.exc = "KeyError"]
             ELSE [st EXCEPT !.stats_df =
                      [t \in DOMAIN st.stats_df |->
                          [key |-> st.stats_df[t].key,
                           val |-> FillRow(st.stats_df[t].val, ix, comps,
                                           st.stats_df[t].key)]]]

\* for ix, rec_name in enumerate(rec_names): ...
RECURSIVE StatsRecLoop(_, _, _, _, _)
StatsRecLoop(st, store, rec_names, ix, fields) ==
    IF ix > Len(rec_names) \/ st.exc # "" THEN st
    ELSE StatsRecLoop(
             StatsRecStep([st EXCEPT !.read = Append(@, rec_names[ix])],
                          store, rec_names, ix, fields),
             store, rec_names, ix + 1, fields)

\* get_stats_multi: rec_names is [all |-> TRUE] for None, else the list given
get_stats_multi(store, fields, rec_names, avoid) ==
    LET given == IF rec_names.all THEN Keys(store) ELSE rec_names.list
        kept == RemoveAvoided(given, avoid)
    IN  IF kept.exc # ""
        THEN [exc |-> kept.exc, value |-> << >>, read |-> << >>]
        ELSE LET st0 == [stats_df |->
                            Update(<< >>, [f \in DOMAIN fields |->
                                [key |-> fields[f],
                                 val |-> RecordingFrame(kept.value)]]),
                         exc |-> "", read |-> << >>]
                 st == StatsRecLoop(st0, store, kept.value, 1, fields)
             IN  IF st.exc # ""
                 THEN [exc |-> st.exc, value |-> << >>, read |-> st.read]
                 ELSE [exc |-> "",
                       value |-> [t \in DOMAIN st.stats_df |->
                                     [key |-> st.stats_df[t].key,
                                      val |-> set_index(st.stats_df[t].val,
                                                        "recording")]],
                       read |-> st.read]

\* as ConvertColName, but the separator is written before the sensor name
ConvertColName_LeadingSeparator(sensor_group, sensor_name, comp_name) ==
    sensor_group \o "/" \o sensor_name \o "/" \o comp_name

\* col_name = f'{sensor_group}{sensor_name}/{comp_name}'
ConvertColName(sensor_group, sensor_name, comp_name) ==
    sensor_group \o sensor_name \o "/" \o comp_name

\* for field in fields: stats_df[field][col_name] = sensor_data[field][:, comp_ix]
RECURSIVE ConvertFieldLoop(_, _, _, _, _)
ConvertFieldLoop(st, sensor_data, col_name, comp_ix, fields) ==
    IF fields = << >> \/ st.exc # "" THEN st
    ELSE LET field == Head(fields)
         IN  IF ~DictHas(sensor_data, field)
             THEN [st EXCEPT !.exc = "KeyError"]
             ELSE LET a == DictGet(sensor_data, field)
                      df == DictGet(st.stats_df, field)
                  IN  IF \E r \in DOMAIN a : comp_ix > Len(a[r])
                      THEN [st EXCEPT !.exc = "IndexError"]
                      ELSE IF Len(a) # NRows(df)
                      THEN [st EXCEPT !.exc = "ValueError: lengths"]
                      ELSE ConvertFieldLoop(
                               [st EXCEPT !.stats_df = SetItem(@, field,
                                   [df EXCEPT !.cols = SetItem(@, col_name,
                                       [r \in DOMAIN a |-> a[r][comp_ix]])])],
                               sensor_data, col_name, comp_ix, Tail(fields))

\* for comp_ix, comp_name in enumerate(sensor_data['component_names']): ...
RECURSIVE ConvertCompLoop(_, _, _, _, _, _)
ConvertCompLoop(st, sensor_data, sensor_group, sensor_name, comp_ix, fields) ==
    IF st.exc # "" \/ comp_ix > Len(DictGet(sensor_data, "component_names"))
    THEN st
    ELSE LET comp_name == DictGet(sensor_data, "component_names")[comp_ix]
             col_name == ConvertColName(sensor_group, sensor_name, comp_name)
         IN  ConvertCompLoop(
                 ConvertFieldLoop(st, sensor_data, col_name, comp_ix, fields),
                 sensor_data, sensor_group, sensor_name, comp_ix + 1, fields)

\* if sensor_dict: ...   (None and the empty dict are both false)
Truthy(sensor_dict) == sensor_dict.kind = "dict" /\ DOMAIN sensor_dict.map # {}

\* for sensor_name in stats_dict['sensor']: ...
RECURSIVE ConvertSensorLoop(_, _, _, _)
ConvertSensorLoop(st, sensors, sensor_dict, fields) ==
    IF sensors = << >> \/ st.exc # "" THEN st
    ELSE LET sensor_name == Head(sensors).key
             sensor_data == Head(sensors).val
         IN  IF Truthy(sensor_dict) /\ sensor_name \notin DOMAIN sensor_dict.map
             THEN [st EXCEPT !.exc = "KeyError"]
             ELSE IF ~DictHas(sensor_data, "component_names")
             THEN [st EXCEPT !.exc = "KeyError"]
             ELSE LET sensor_group == IF Truthy(sensor_dict)
                                      THEN sensor_dict.map[sensor_name] \o "/"
                                      ELSE ""
                  IN  ConvertSensorLoop(
                          ConvertCompLoop(st, sensor_data, sensor_group,
                                          sensor_name, 1, fields),
                          Tail(sensors), sensor_dict, fields)

\* convert_stats: stats_dict is a Python dict, sensor_dict None or a dict
convert_stats(stats_dict, sensor_dict, fields) ==
    IF fields # << >> /\ ~DictHas(stats_dict, "recording") THEN Raise("KeyError")
    ELSE IF ~DictHas(stats_dict, "sensor") THEN Raise("KeyError")
    ELSE LET st0 == [stats_df |->
                        Update(<< >>, [f \in DOMAIN fields |->
                            [key |-> fields[f],
                             val |-> RecordingFrame(
                                         DictGet(stats_dict, "recording"))]]),
                     exc |-> ""]
             st == ConvertSensorLoop(st0, DictGet(stats_dict, "sensor"),
                                     sensor_dict, fields)
         IN  IF st.exc # "" THEN Raise(st.exc)
             ELSE Return([t \in DOMAIN st.stats_df |->
                             [key |-> st.stats_df[t].key,
                              val |-> set_index(st.stats_df[t].val, "recording")]])

-----------------------------------------------------------------------------------------------------------------------------------------------------
(* The inputs the model explores *)

Lens == 0..MaxLen

Durations == 1..MaxDuration

Starts == 0..MaxStart

\* stores of one recording, of every layout
SingleStores ==
    { << Rec("r1", a, lay) >> :
        a \in {NoAttrs} \cup {DurationOnly(d) : d \in Durations}
                        \cup {Timed(d) : d \in Durations},
        lay \in UNION {Layouts(len) : len \in Lens} }

\* stores of two recordings
FirstRecs ==
    { Rec("r1", a, lay) :
        a \in {NoAttrs} \cup {Started(d, s) : d \in {1, MaxDuration}, s \in 0..1},
        lay \in UNION {{LayWaveWind(len), LayDup(len)} : len \in {1, MaxLen}} }

SecondRecs ==
    { Rec("r2", a, lay) :
        a \in {NoAttrs, Timed(1)} \cup {Started(1, s) : s \in Starts},
        lay \in {LayWaveWind(2), LayDup(1), LayEmpty(0)} }

MultiStores == { <<r1, r2>> : r1 \in FirstRecs, r2 \in SecondRecs }

Policies ==
    { NoneDict,
      Dict(<< >>),
      Dict("wave" :> <<"h">>),
      Dict(("wind" :> <<"V", "U">>) @@ ("acceleration" :> <<"x">>)),
      Dict(("s1" :> <<"x">>) @@ ("h_sensor" :> <<"h">>)),
      Dict("wave" :> <<"h", "z">>),
      Dict("strain" :> <<"x">>),
      NotADict }

Kwargs ==
    [ component_dict : Policies,
      lookup_sensor_groups : BOOLEAN,
      return_as : {"dataframe", "array", "dict", "list"},
      decimation_factor : 1..MaxDecim,
      level_separator : {"/"},
      return_t : BOOLEAN,
      name_from : {"None", "label"} ]

\* the keyword arguments export_from_multirec_hdf passes on (return_as is its own)
MultiKwargs ==
    [ component_dict : {NoneDict, Dict(<< >>),
                        Dict(("wave" :> <<"h">>) @@ ("acceleration" :> <<"x">>))},
      lookup_sensor_groups : {TRUE},
      return_as : {"dataframe"},
      decimation_factor : 1..2,
      level_separator : {"/"},
      return_t : BOOLEAN,
      name_from : {"None"} ]

RecNameSet == {"r1", "r2", "r9"}

RECURSIVE SeqsUpTo(_, _)
SeqsUpTo(S, n) ==
    IF n = 0 THEN {<< >>}
    ELSE LET shorter == SeqsUpTo(S, n - 1)
         IN  shorter \cup {Append(q, x) : q \in shorter, x \in S}

RecNameArgs ==
    {[all |-> TRUE, list |-> << >>]}
        \cup {[all |-> FALSE, list |-> q] : q \in SeqsUpTo(RecNameSet, MaxRecs)}

SingleCalls ==
    { [op |-> "export_from_hdf", rec_name |-> "r1",
       rec_names |-> [all |-> FALSE, list |-> << >>], kw |-> kw] : kw \in Kwargs }

MultiCalls ==
    { [op |-> "export_from_multirec_hdf", rec_name |-> "",
       rec_names |-> rec_names, kw |-> kw] :
        rec_names \in RecNameArgs, kw \in MultiKwargs }

\* the stores of the statistics calls: the reserved root key or not, a
\* recording r1, and a recording r2 or not, in the key order of the store
GlobalStats == Rec(".global_stats", NoAttrs, GlobalStatsTree)

StatsFirstRecs ==
    { Rec("r1", a, lay) :
        a \in {NoAttrs, Started(1, 0)},
        lay \in {LayWaveWind(1), LayDup(1), LayDupNoStd(1), LayEmpty(0)} }

StatsSecondRecs ==
    { Rec("r2", NoAttrs, lay) :
        lay \in {LayWaveExtra(1), LayNoStd(1), LayWaveWind(1)} }

StatsStores ==
    { reserved \o <<r1>> \o more :
        reserved \in {<< >>, <<GlobalStats>>},
        r1 \in StatsFirstRecs,
        more \in {<< >>} \cup {<<r2>> : r2 \in StatsSecondRecs} }

FieldLists == {<<"mean", "std">>, <<"std", "mean">>, <<"mean">>, << >>}

AvoidLists ==
    {<<".global_stats">>, << >>, <<"r1">>, <<"r9">>, <<"r1", ".global_stats">>}

StatsNameSet == {".global_stats", "r1", "r2"}

StatsRecNameArgs ==
    {[all |-> TRUE, list |-> << >>]}
        \cup {[all |-> FALSE, list |-> q] : q \in SeqsUpTo(StatsNameSet, MaxRecs)}

StatsMultiCalls ==
    { [op |-> "get_stats_multi", rec_name |-> "", rec_names |-> rec_names,
       kw |-> [fields |-> fields, avoid |-> avoid]] :
        rec_names \in StatsRecNameArgs, fields \in FieldLists, avoid \in AvoidLists }

GetStatsCalls ==
    { [op |-> "get_stats", rec_name |-> rec_name,
       rec_names |-> [all |-> FALSE, list |-> << >>],
       kw |-> [fields |-> fields]] :
        rec_name \in {"r1", "r2"}, fields \in FieldLists }

\* export_from_multirec_hdf over all the recordings of a statistics store
SweepCalls ==
    { [op |-> "export_from_multirec_hdf", rec_name |-> "",
       rec_names |-> [all |-> TRUE, list |-> << >>], kw |-> kw] :
        kw \in MultiKwargs }

\* the statistics mappings convert_stats reads: the recording names, and per
\* sensor the component names and one array (recordings x components) a field
StatsArray(base, n_rec, n_comp) ==
    [r \in 1..n_rec |-> [c \in 1..n_comp |-> <<base + 10 * c + r, 1>>]]

SensorStats(component_names, n_rec, base) ==
    << [key |-> "component_names", val |-> component_names],
       [key |-> "mean", val |-> StatsArray(base, n_rec, Len(component_names))],
       [key |-> "std", val |-> StatsArray(base + 100, n_rec, Len(component_names))] >>

SensorsOfStats(n_rec) ==
    { << [key |-> "h_sensor", val |-> SensorStats(<<"h">>, n_rec, 0)],
         [key |-> "U_sensor", val |-> SensorStats(<<"U", "V">>, n_rec, 200)] >>,
      << [key |-> "s1", val |-> SensorStats(<<"x">>, n_rec, 400)] >>,
      << [key |-> "h_sensor",
          val |-> DelItem(SensorStats(<<"h">>, n_rec, 0), "std")] >>,
      << >> }

StatsDicts ==
    { << [key |-> "recording", val |-> recs], [key |-> "sensor", val |-> sensors] >> :
        recs \in SeqsUpTo({"r1", "r2"}, MaxRecs),
        sensors \in UNION {SensorsOfStats(n) : n \in 0..MaxRecs} }

SensorDicts ==
    { NoneDict,
      Dict(<< >>),
      Dict(("h_sensor" :> "wave") @@ ("U_sensor" :> "wind") @@ ("s1" :> "acceleration")),
      Dict("h_sensor" :> "wave") }

ConvertCalls ==
    { [op |-> "convert_stats", rec_name |-> "",
       rec_names |-> [all |-> FALSE, list |-> << >>],
       kw |-> [stats_dict |-> stats_dict, sensor_dict |-> sensor_dict,
               fields |-> fields]] :
        stats_dict \in StatsDicts, sensor_dict \in SensorDicts,
        fields \in FieldLists }

\* the stores and the calls of misc.time_axis
TimeAxisStores ==
    { << Rec("r1", a, lay) >> :
        a \in {NoAttrs} \cup {Timed(d) : d \in Durations},
        lay \in UNION {{LayWaveWind(len), LayDup(len), LayBare(len)} : len \in Lens} }

TimeAxisCalls ==
    { [op |-> "time_axis", rec_name |-> "r1",
       rec_names |-> [all |-> FALSE, list |-> << >>],
       kw |-> [sensor_name |-> sensor_name, component |-> component,
               sensor_dict |-> sensor_dict, starttime |-> starttime]] :
        sensor_name \in {"h_sensor", "U_sensor", "s1"},
        component \in {"None", "h", "V"},
        sensor_dict \in {NoneDict,
                         Dict(("h_sensor" :> "wave") @@ ("s1" :> "acceleration"))},
        starttime \in Starts }

-----------------------------------------------------------------------------
(* The state machine: a store, a call on it with its arguments, its outcome. *)
(* call keeps the arguments as they were passed; args is the argument       *)
(* objects of the caller as they are now.                                    *)
(* The functions keep nothing between calls and leave the store alone, so a *)
(* behaviour is one call.                                                    *)

NoResult == [exc |-> "", value |-> << >>, resolved |-> << >>, read |-> << >>]

Init ==
    /\ \/ hf \in SingleStores /\ call \in SingleCalls
       \/ hf \in MultiStores /\ call \in MultiCalls
       \/ hf \in StatsStores /\ call \in SweepCalls \cup StatsMultiCalls
       \/ hf \in StatsStores /\ call \in GetStatsCalls /\ Has(hf, call.rec_name)
       \/ hf = << >> /\ call \in ConvertCalls \cup SweepCalls
       \/ hf \in TimeAxisStores /\ call \in TimeAxisCalls
    /\ args = call
    /\ pc = "call"
    /\ result = NoResult

\* export_from_hdf(hf[rec_name], **kw)
ExportFromHdf ==
    /\ pc = "call"
    /\ call.op = "export_from_hdf"
    /\ result' = export_from_hdf(Get(hf, call.rec_name), call.kw) @@
                 [read |-> << >>]
    /\ pc' = "done"
    /\ UNCHANGED <<hf, call, args>>

\* export_from_multirec_hdf(hf, rec_names, **kw)
ExportFromMultirecHdf ==
    /\ pc = "call"
    /\ call.op = "export_from_multirec_hdf"
    /\ result' = export_from_multirec_hdf(hf, call.rec_names, call.kw) @@
                 [resolved |-> << >>]
    /\ pc' = "done"
    /\ UNCHANGED <<hf, call, args>>

\* get_stats_multi(hf, fields, rec_names, avoid)
GetStatsMulti ==
    /\ pc = "call"
    /\ call.op = "get_stats_multi"
    /\ result' = get_stats_multi(hf, call.kw.fields, call.rec_names,
                                 call.kw.avoid) @@ [resolved |-> << >>]
    /\ args' = IF call.rec_names.all THEN args
               ELSE [args EXCEPT !.rec_names.list =
                        RemovedFrom(@, call.kw.avoid)]
    /\ pc' = "done"
    /\ UNCHANGED <<hf, call>>

\* get_stats(hf[rec_name], fields)
GetStats ==
    /\ pc = "call"
    /\ call.op = "get_stats"
    /\ result' = get_stats(Get(hf, call.rec_name), call.kw.fields) @@
                 [resolved |-> << >>, read |-> << >>]
    /\ pc' = "done"
    /\ UNCHANGED <<hf, call, args>>

\* convert_stats(stats_dict, sensor_dict, fields)
ConvertStats ==
    /\ pc = "call"
    /\ call.op = "convert_stats"
    /\ result' = convert_stats(call.kw.stats_dict, call.kw.sensor_dict,
                               call.kw.fields) @@
                 [resolved |-> << >>, read |-> << >>]
    /\ pc' = "done"
    /\ UNCHANGED <<hf, call, args>>

\* convert_stats(stats, create_sensor_dict(hf[rec_name]), fields), stats being
\* what get_stats(hf[rec_name], fields) returned
ConvertGetStats ==
    /\ pc = "done"
    /\ call.op = "get_stats"
    /\ result.exc = ""
    /\ result' = convert_stats(
                     result.value,
                     Dict(DictAsMap(create_sensor_dict(Get(hf, call.rec_name)))),
                     call.kw.fields) @@
                 [resolved |-> << >>, read |-> << >>]
    /\ pc' = "converted"
    /\ UNCHANGED <<hf, call, args>>

\* misc.time_axis(hf[rec_name], sensor_name, component, sensor_dict, starttime)
MiscTimeAxis ==
    /\ pc = "call"
    /\ call.op = "time_axis"
    /\ result' = time_axis(Get(hf, call.rec_name), call.kw.sensor_name,
                           call.kw.component, call.kw.sensor_dict,
                           call.kw.starttime) @@
                 [resolved |-> << >>, read |-> << >>]
    /\ pc' = "done"
    /\ UNCHANGED <<hf, call, args>>

Next ==
    \/ MiscTimeAxis
    \/ ExportFromHdf
    \/ ExportFromMultirecHdf
    \/ GetStatsMulti
    \/ GetStats
    \/ ConvertStats
    \/ ConvertGetStats

Spec == Init /\ [][Next]_vars

-----------------------------------------------------------------------------
(* Vocabulary of the properties *)

SingleDone == pc = "done" /\ call.op = "export_from_hdf"

MultiDone == pc = "done" /\ call.op = "export_from_multirec_hdf"

IsPrefix(p, q) == Len(p) <= Len(q) /\ \A i \in DOMAIN p : p[i] = q[i]

\* the (group, sensor) pairs of a recording, in store iteration order
PairsOf(rec) ==
    Concat([g \in DOMAIN rec.groups |->
               [s \in DOMAIN rec.groups[g].sensors |->
                   [group |-> rec.groups[g].name,
                    sensor |-> rec.groups[g].sensors[s]]]])

\* every (group, sensor, component) of a recording, in store iteration order
TriplesOf(rec) ==
    LET pairs == PairsOf(rec)
    IN  Concat([p \in DOMAIN pairs |->
                   [c \in DOMAIN pairs[p].sensor.comps |->
                       <<pairs[p].group, pairs[p].sensor.name,
                         pairs[p].sensor.comps[c].name>>]])

\* what a policy mapping lists for the pairs of a recording
ListedTriples(rec, map, by_group) ==
    LET pairs == PairsOf(rec)
        key(p) == IF by_group THEN pairs[p].group ELSE pairs[p].sensor.name
    IN  Concat([p \in DOMAIN pairs |->
                   IF key(p) \in DOMAIN map
                   THEN [c \in DOMAIN map[key(p)] |->
                            <<pairs[p].group, pairs[p].sensor.name, map[key(p)][c]>>]
                   ELSE << >>])

\* the raw samples of a triple of a recording
RawOf(rec, triple) ==
    LET g == Get(rec.groups, triple[1])
    IN  Get(Get(g.sensors, triple[2]).comps, triple[3]).data

\* the columns of a returned mapping, table or array (with its labels), and
\* those that are not the time
ColumnsOf(v) ==
    CASE v.kind = "dict" -> v.items
      [] v.kind = "dataframe" -> v.cols
      [] v.kind = "array" ->
            [i \in DOMAIN v.labels |->
                [key |-> v.labels[i],
                 val |-> [r \in DOMAIN v.rows |-> v.rows[r][i]]]]

DataColumns(v) == DelItem(ColumnsOf(v), "t")

TheRecording == Get(hf, call.rec_name)

-----------------------------------------------------------------------------
(* Properties of export_from_hdf *)

\* C1: with a selection policy that is a mapping, the triples the export takes
\* are, pair by pair in store order, the components the policy lists for the
\* pair's key (the group name when addressing by group, else the sensor name),
\* in listed order, and none for a pair whose key the policy lacks; an export
\* that stops at a missing component has taken a prefix of them.
C1_PolicySelection ==
    (SingleDone /\ call.kw.component_dict.kind = "dict") =>
        LET listed == ListedTriples(TheRecording, call.kw.component_dict.map,
                                    call.kw.lookup_sensor_groups)
        IN  /\ IsPrefix(result.resolved, listed)
            /\ result.exc # "KeyError" => result.resolved = listed

C1_Witness ==
    /\ SingleDone
    /\ result.exc = ""
    /\ call.kw.lookup_sensor_groups
    /\ call.kw.component_dict = Dict(("wind" :> <<"V", "U">>) @@ ("acceleration" :> <<"x">>))
    /\ Has(TheRecording.groups, "wave")
    /\ result.resolved = << <<"wind", "U_sensor", "V">>, <<"wind", "U_sensor", "U">> >>

\* C2: with no selection policy, the data columns of a returned mapping or
\* table are one per component of the recording, in store iteration order,
\* each holding the decimated samples of its component.
C2_AllComponentsExported ==
    (/\ SingleDone
     /\ call.kw.component_dict.kind = "none"
     /\ result.exc = ""
     /\ call.kw.return_as \in {"dict", "dataframe"}) =>
        LET triples == TriplesOf(TheRecording)
            data == DataColumns(result.value)
        IN  /\ Len(data) = Len(triples)
            /\ \A i \in DOMAIN data :
                  data[i].val = Decimate(RawOf(TheRecording, triples[i]),
                                         call.kw.decimation_factor)

\* C3: an export to a table with a policy mapping that lists nothing for the
\* recording does not raise, and its table has no column but the time.
C3_EmptySelectionReturns ==
    (/\ SingleDone
     /\ call.kw.component_dict.kind = "dict"
     /\ call.kw.return_as = "dataframe"
     /\ ListedTriples(TheRecording, call.kw.component_dict.map,
                      call.kw.lookup_sensor_groups) = << >>) =>
        /\ result.exc = ""
        /\ ColumnSet(result.value) \subseteq {"t"}

\* what the time axis of a returned mapping or table must be for a duration:
\* as many values as the first column, evenly spaced, the first exactly 0 and,
\* when there are two or more, the last exactly the duration
TimeAxisOf(v, duration, last_when_single) ==
    /\ DictHas(ColumnsOf(v), "t")
    /\ LET t == DictGet(ColumnsOf(v), "t")
           n == Len(ColumnsOf(v)[1].val)
       IN  /\ Len(t) = n
           /\ n >= 1 => REq(t[1], Num(0))
           /\ n >= 2 => REq(t[n], Num(duration))
           /\ n = 1 /\ last_when_single => REq(t[n], Num(duration))
           /\ n = 0 /\ last_when_single => FALSE
           /\ \A i \in 1..(n - 2) :
                 REq(RSub(t[i + 1], t[i]), RSub(t[i + 2], t[i + 1]))

ReturnsColumns ==
    /\ SingleDone
    /\ result.exc = ""
    /\ DataColumns(result.value) # << >>

\* C4 as stated: a recording with a duration attribute, a time axis requested,
\* one array or more retained: the output has a column t of N values, N the
\* length of the first retained array, evenly spaced, from exactly 0 to exactly
\* the duration.
C4_Original ==
    (/\ ReturnsColumns
     /\ call.kw.return_t
     /\ "duration" \in DOMAIN TheRecording.attrs) =>
        TimeAxisOf(result.value, TheRecording.attrs["duration"], TRUE)

\* C4, amended: a recording with both a samplerate and a duration attribute, a
\* time axis requested, one array or more retained, and the export returns:
\* the output has a column t of N values, N the length of the first retained
\* array, evenly spaced, the first exactly 0 when N >= 1, the last exactly the
\* duration when N >= 2 (a single value is 0).
C4_TimeAxis ==
    (/\ ReturnsColumns
     /\ call.kw.return_t
     /\ "samplerate" \in DOMAIN TheRecording.attrs
     /\ "duration" \in DOMAIN TheRecording.attrs) =>
        TimeAxisOf(result.value, TheRecording.attrs["duration"], FALSE)

C4_Witness ==
    /\ ReturnsColumns
    /\ call.kw.return_t
    /\ "samplerate" \in DOMAIN TheRecording.attrs
    /\ TheRecording.attrs["duration"] = 2
    /\ DictHas(ColumnsOf(result.value), "t")
    /\ LET t == DictGet(ColumnsOf(result.value), "t")
       IN  Len(t) = 3 /\ REq(t[1], Num(0)) /\ REq(t[2], Num(1)) /\ REq(t[3], Num(2))

Ceil(a, b) == (a + b - 1) \div b

\* C5: when the selected components all have raw length L, a table exported
\* with stride k has ceil(L / k) rows, and each data column holds the samples
\* of a selected component at raw indices 0, k, 2k, ...
C5_DecimationRows ==
    (/\ SingleDone
     /\ result.exc = ""
     /\ call.kw.return_as = "dataframe"
     /\ result.resolved # << >>) =>
        LET k == call.kw.decimation_factor
            data == DataColumns(result.value)
        IN  \A L \in 0..(MaxLen + 1) :
               (\A i \in DOMAIN result.resolved :
                    Len(RawOf(TheRecording, result.resolved[i])) = L) =>
                  /\ NRows(result.value) = Ceil(L, k)
                  /\ \A c \in DOMAIN data :
                        \E i \in DOMAIN result.resolved :
                           LET raw == RawOf(TheRecording, result.resolved[i])
                           IN  /\ Len(data[c].val) = Ceil(L, k)
                               /\ \A j \in DOMAIN data[c].val :
                                     data[c].val[j] = raw[(j - 1) * k + 1]

C5_Witness ==
    /\ SingleDone
    /\ result.exc = ""
    /\ call.kw.return_as = "dataframe"
    /\ call.kw.decimation_factor = 2
    /\ \A i \in DOMAIN result.resolved :
          Len(RawOf(TheRecording, result.resolved[i])) = 3
    /\ NRows(result.value) = 2
    /\ DataColumns(result.value) # << >>
    /\ DataColumns(result.value)[1].val = <<Num(10), Num(12)>>

\* a mapping outcome converted to a table: pd.DataFrame.from_dict of the mapping
AsTable(out) ==
    IF out.exc # "" THEN Raise(out.exc) ELSE DataFrameFromDict(out.value.items)

Outcome(out) == [exc |-> out.exc, value |-> out.value]

\* C6: the outcome of an export to a table is the outcome of the same export to
\* a mapping, converted to a table, and the other way round: the same columns
\* in the same order with the same values, or the same error.
C6_MappingTableRoundTrip ==
    SingleDone =>
        /\ call.kw.return_as = "dataframe" =>
              Outcome(result) =
                  AsTable(export_from_hdf(TheRecording,
                                          [call.kw EXCEPT !.return_as = "dict"]))
        /\ call.kw.return_as = "dict" =>
              AsTable(result) =
                  Outcome(export_from_hdf(TheRecording,
                                          [call.kw EXCEPT !.return_as = "dataframe"]))

C6_Witness ==
    /\ SingleDone
    /\ call.kw.return_as = "dataframe"
    /\ result.exc = ""
    /\ Len(result.value.cols) >= 3
    /\ HasColumn(result.value, "t")
    /\ NRows(result.value) >= 2

-----------------------------------------------------------------------------
(* Properties of export_from_multirec_hdf *)

\* the recordings a call names, and the table export_from_hdf gives for each
NamesOf(rec_names) == IF rec_names.all THEN Keys(hf) ELSE rec_names.list

TableOf(rec_name) ==
    export_from_hdf(Get(hf, rec_name),
                    [call.kw EXCEPT !.return_as = "dataframe"]).value

RECURSIVE SumRows(_)
SumRows(names) ==
    IF names = << >> THEN 0 ELSE NRows(TableOf(Head(names))) + SumRows(Tail(names))

\* the cells of column k of table df in rows from + 1 .. from + n
Cells(df, k, from, n) == SubSeq(DictGet(df.cols, k), from + 1, from + n)

MultiReturned == MultiDone /\ result.exc = ""

\* C7: the table export_from_multirec_hdf returns has as many rows as the
\* tables of its recordings together, and holds them recording by recording
\* in the order of the list: the rows of the i-th recording come after those
\* of the recordings before it and carry its data.
C7_RowsInListOrder ==
    MultiReturned =>
        LET names == NamesOf(call.rec_names)
        IN  /\ NRows(result.value) = SumRows(names)
            /\ \A i \in DOMAIN names :
                  LET df == TableOf(names[i])
                      from == SumRows(SubSeq(names, 1, i - 1))
                  IN  \A c \in DOMAIN df.cols :
                         df.cols[c].key # "t" =>
                            Cells(result.value, df.cols[c].key, from, NRows(df))
                                = df.cols[c].val

C7_Witness ==
    /\ MultiReturned
    /\ call.rec_names.list = <<"r2", "r1">>
    /\ NRows(TableOf("r2")) = 2
    /\ NRows(TableOf("r1")) = 3
    /\ NRows(result.value) = 5
    /\ HasColumn(result.value, "h_sensor/h")
    /\ DictGet(result.value.cols, "h_sensor/h")
          = <<Num(10), Num(11), Num(10), Num(11), Num(12)>>

\* the absolute times of the returned table
TimesOf(df) == IF df.index_name = "t" THEN df.index ELSE DictGet(df.cols, "t")

NonDecreasing(t) == \A i \in 1..(Len(t) - 1) : RLeq(t[i], t[i + 1])

AllTimed(names) == \A i \in DOMAIN names : HasColumn(TableOf(names[i]), "t")

StartOf(rec_name) == Get(hf, rec_name).attrs["starttime"]

DurationOf(rec_name) == Get(hf, rec_name).attrs["duration"]

\* C8 as stated: distinct recordings with a time column whose start times are
\* ordered give a table whose absolute times never decrease.
C8_Original ==
    (MultiReturned /\ AllTimed(NamesOf(call.rec_names))) =>
        LET names == NamesOf(call.rec_names)
        IN  (/\ \A i, j \in DOMAIN names : names[i] = names[j] => i = j
             /\ \A i \in 1..(Len(names) - 1) :
                   StartOf(names[i]) <= StartOf(names[i + 1]))
               => NonDecreasing(TimesOf(result.value))

\* C8, amended: recordings with a time column of which each ends no later than
\* the next starts (starttime + duration <= the next starttime) give a table
\* whose absolute times never decrease, also from one recording to the next.
C8_TimeMonotone ==
    (MultiReturned /\ AllTimed(NamesOf(call.rec_names))) =>
        LET names == NamesOf(call.rec_names)
        IN  (\A i \in 1..(Len(names) - 1) :
                StartOf(names[i]) + DurationOf(names[i]) <= StartOf(names[i + 1]))
               => NonDecreasing(TimesOf(result.value))

C8_Witness ==
    /\ MultiReturned
    /\ call.rec_names.list = <<"r1", "r2">>
    /\ AllTimed(<<"r1", "r2">>)
    /\ StartOf("r1") + DurationOf("r1") <= StartOf("r2")
    /\ NRows(TableOf("r1")) >= 2
    /\ NRows(TableOf("r2")) >= 2
    /\ result.value.index_name = "t"
    /\ NonDecreasing(result.value.index)

\* the columns of a table, the one that became the index among them
AllColumns(df) ==
    ColumnSet(df) \cup (IF df.index_name = "None" THEN {} ELSE {df.index_name})

\* C9: the table export_from_multirec_hdf returns has, as columns or index, the
\* columns of the tables of its recordings, all of them and no other; in the
\* rows of a recording, a column the recording has holds no missing-value
\* marker and a column it lacks holds nothing else.
C9_ColumnUnion ==
    MultiReturned =>
        LET names == NamesOf(call.rec_names)
        IN  /\ AllColumns(result.value)
                  = UNION {ColumnSet(TableOf(names[i])) : i \in DOMAIN names}
            /\ \A i \in DOMAIN names :
                  LET df == TableOf(names[i])
                      from == SumRows(SubSeq(names, 1, i - 1))
                  IN  \A k \in ColumnSet(result.value) :
                         LET cells == Cells(result.value, k, from, NRows(df))
                         IN  \A r \in DOMAIN cells :
                                (cells[r] = NaN) <=> ~HasColumn(df, k)

C9_Witness ==
    /\ MultiReturned
    /\ call.rec_names.list = <<"r1", "r2">>
    /\ HasColumn(TableOf("r1"), "h_sensor/h")
    /\ ~HasColumn(TableOf("r2"), "h_sensor/h")
    /\ HasColumn(TableOf("r2"), "s1/x")
    /\ NRows(TableOf("r1")) = 3
    /\ HasColumn(result.value, "h_sensor/h")
    /\ HasColumn(result.value, "s1/x")
    /\ DictGet(result.value.cols, "h_sensor/h")
          = <<Num(10), Num(11), Num(12), NaN>>

\* C10: when a recording of the list gave a time column, the time is the index
\* of the returned table, whichever recording gave it.
C10_TimeIsIndex ==
    MultiReturned =>
        LET names == NamesOf(call.rec_names)
        IN  (\E i \in DOMAIN names : HasColumn(TableOf(names[i]), "t"))
               => result.value.index_name = "t"

-----------------------------------------------------------------------------
(* Error handling of the exports *)

\* C16: an export with a selection policy that is neither absent nor a mapping
\* fails with the invalid-selection ValueError and returns nothing, whatever
\* the recording holds, a recording with no group included.
C16_InvalidPolicyFails ==
    (SingleDone /\ call.kw.component_dict.kind = "other") =>
        /\ result.exc = "ValueError: Wrong format"
        /\ result.value = << >>

\* the same export with the mapping as output kind
AsMapping == export_from_hdf(TheRecording, [call.kw EXCEPT !.return_as = "dict"])

UnsupportedKind ==
    SingleDone /\ call.kw.return_as \notin {"array", "dataframe", "dict"}

\* C17 as stated: an export with an output kind outside array, mapping and
\* table fails with the unsupported-output-kind error and with no other.
C17_Original ==
    UnsupportedKind => result.exc = "ValueError: return_as"

\* C17, amended: an export with an output kind outside array, mapping and
\* table always fails and returns nothing; its error is the
\* unsupported-output-kind error when the same export with the mapping kind
\* returns, and otherwise the error that export fails with (the selection and
\* the time axis are worked out before the output kind is looked at).
C17_UnsupportedKind ==
    UnsupportedKind =>
        /\ result.exc # ""
        /\ result.value = << >>
        /\ AsMapping.exc = "" => result.exc = "ValueError: return_as"
        /\ AsMapping.exc # "" => result.exc = AsMapping.exc

C17_Witness ==
    /\ UnsupportedKind
    /\ call.kw.component_dict = Dict("wave" :> <<"h">>)
    /\ AsMapping.exc = ""
    /\ DictHas(AsMapping.value.items, "h_sensor/h")
    /\ result.exc = "ValueError: return_as"

\* a triple names a component the store holds
InStore(rec, triple) ==
    /\ Has(rec.groups, triple[1])
    /\ Has(Get(rec.groups, triple[1]).sensors, triple[2])
    /\ Has(Get(Get(rec.groups, triple[1]).sensors, triple[2]).comps, triple[3])

\* C18: when the policy mapping lists, for a group or sensor of the recording,
\* a component the sensor does not hold, the export fails with a KeyError and
\* returns nothing; it takes no triple beyond the first missing one.
C18_MissingComponentFails ==
    (SingleDone /\ call.kw.component_dict.kind = "dict") =>
        LET listed == ListedTriples(TheRecording, call.kw.component_dict.map,
                                    call.kw.lookup_sensor_groups)
            missing == {i \in DOMAIN listed : ~InStore(TheRecording, listed[i])}
        IN  missing # {} =>
               /\ result.exc = "KeyError"
               /\ result.value = << >>
               /\ \A i \in missing : Len(result.resolved) <= i
               /\ \A i \in 1..(Len(result.resolved) - 1) :
                     InStore(TheRecording, result.resolved[i])

C18_Witness ==
    /\ SingleDone
    /\ call.kw.component_dict = Dict("wave" :> <<"h", "z">>)
    /\ call.kw.lookup_sensor_groups
    /\ call.kw.name_from = "None"
    /\ InStore(TheRecording, <<"wave", "h_sensor", "h">>)
    /\ result.exc = "KeyError"
    /\ result.value = << >>
    /\ result.resolved = << <<"wave", "h_sensor", "h">>, <<"wave", "h_sensor", "z">> >>

\* C19: when a time axis is asked of a recording with samplerate and duration,
\* the export takes components and every retained array has zero length after
\* decimation, the export fails; it does not return an output with an empty
\* time axis.
C19_ZeroLengthFails ==
    (/\ SingleDone
     /\ call.kw.return_t
     /\ "samplerate" \in DOMAIN TheRecording.attrs
     /\ "duration" \in DOMAIN TheRecording.attrs
     /\ result.resolved # << >>
     /\ \A i \in DOMAIN result.resolved :
           /\ InStore(TheRecording, result.resolved[i])
           /\ Decimate(RawOf(TheRecording, result.resolved[i]),
                       call.kw.decimation_factor) = << >>) =>
        result.exc # ""

\* a recording of the call exports to a table, and to one with a time column
\* though it has no starttime attribute
Exports(rec_name) ==
    /\ Has(hf, rec_name)
    /\ export_from_hdf(Get(hf, rec_name),
                       [call.kw EXCEPT !.return_as = "dataframe"]).exc = ""

LacksStart(rec_name) ==
    /\ Exports(rec_name)
    /\ HasColumn(TableOf(rec_name), "t")
    /\ "starttime" \notin DOMAIN Get(hf, rec_name).attrs

\* a recording goes through the body of the loop of export_from_multirec_hdf:
\* it is in the store, it exports, and it has a starttime if its table has a
\* time column
Passes(rec_name) ==
    /\ Has(hf, rec_name)
    /\ LET out == export_from_hdf(Get(hf, rec_name),
                                  [call.kw EXCEPT !.return_as = "dataframe"])
       IN  /\ out.exc = ""
           /\ HasColumn(out.value, "t") =>
                 "starttime" \in DOMAIN Get(hf, rec_name).attrs

\* the place, from i on, of the first name of a list that does not go through
\* the body of the loop, 0 when they all do
RECURSIVE FirstFailing(_, _)
FirstFailing(names, i) ==
    IF i > Len(names) THEN 0
    ELSE IF ~Passes(names[i]) THEN i
    ELSE FirstFailing(names, i + 1)

\* C20: in the table export_from_multirec_hdf returns, the times of the rows
\* of each recording whose table has a time column are the relative times of
\* that table plus the starttime attribute of that same recording; and the
\* call fails with a KeyError when the first recording it cannot finish is one
\* whose table has a time column and which has no starttime attribute.
C20_AbsoluteTime ==
    MultiDone =>
        LET names == NamesOf(call.rec_names)
        IN  /\ result.exc = "" =>
                  \A i \in DOMAIN names :
                     LET df == TableOf(names[i])
                         from == SumRows(SubSeq(names, 1, i - 1))
                     IN  HasColumn(df, "t") =>
                            /\ "starttime" \in DOMAIN Get(hf, names[i]).attrs
                            /\ \A r \in 1..NRows(df) :
                                  REq(TimesOf(result.value)[from + r],
                                      RAdd(Num(StartOf(names[i])),
                                           DictGet(df.cols, "t")[r]))
            /\ LET i == FirstFailing(names, 1)
               IN  (i # 0 /\ LacksStart(names[i])) => result.exc = "KeyError"

C20_Witness ==
    /\ MultiReturned
    /\ call.rec_names.list = <<"r2", "r1">>
    /\ AllTimed(<<"r1", "r2">>)
    /\ StartOf("r2") = 2
    /\ StartOf("r1") = 1
    /\ NRows(TableOf("r2")) = 2
    /\ NRows(TableOf("r1")) >= 1
    /\ REq(TimesOf(result.value)[2], Num(3))
    /\ REq(TimesOf(result.value)[3], Num(1))

\* a call that stops at a recording with a time column and no starttime
C20_WitnessMissingStart ==
    /\ MultiDone
    /\ call.rec_names.list = <<"r1", "r2">>
    /\ Exports("r1") /\ ~LacksStart("r1")
    /\ LacksStart("r2")
    /\ result.exc = "KeyError"

-----------------------------------------------------------------------------
(* Properties of the statistics *)

StatsMultiDone == pc = "done" /\ call.op = "get_stats_multi"

ConvertDone == pc = "done" /\ call.op = "convert_stats"

InSeq(x, q) == \E i \in DOMAIN q : q[i] = x

\* C11: a call over all the recordings of the store looks up no reserved root
\* key: export_from_multirec_hdf with rec_names 'all' does not look up
\* '.global_stats', get_stats_multi with rec_names None looks up no entry of
\* avoid, and no table it returns has a row for one.
C11_ReservedExcluded ==
    /\ (MultiDone /\ call.rec_names.all) => ~InSeq(".global_stats", result.read)
    /\ (StatsMultiDone /\ call.rec_names.all) =>
          \A a \in DOMAIN call.kw.avoid :
             /\ ~InSeq(call.kw.avoid[a], result.read)
             /\ result.exc = "" =>
                   \A t \in DOMAIN result.value :
                      ~InSeq(call.kw.avoid[a], result.value[t].val.index)

\* the statistics of a recording can be read: it is in the store and each of
\* its components has every field
Readable(rec_name, fields) ==
    /\ Has(hf, rec_name)
    /\ \A i \in DOMAIN TriplesOf(Get(hf, rec_name)) :
          \A f \in DOMAIN fields :
             LET triple == TriplesOf(Get(hf, rec_name))[i]
                 g == Get(Get(hf, rec_name).groups, triple[1])
             IN  fields[f] \in DOMAIN Get(Get(g.sensors, triple[2]).comps,
                                          triple[3]).attrs

\* C12: when the statistics of the recordings of rec_names that are not in
\* avoid can be read, get_stats_multi returns, and each table it returns is
\* indexed by recording name and has one row for each of them, in the order of
\* rec_names, whether or not the entries of avoid are among rec_names.
C12_OneRowPerRecording ==
    StatsMultiDone =>
        LET expected == SelectSeq(NamesOf(call.rec_names),
                                  LAMBDA n : ~InSeq(n, call.kw.avoid))
        IN  (\A i \in DOMAIN expected : Readable(expected[i], call.kw.fields)) =>
               /\ result.exc = ""
               /\ \A t \in DOMAIN result.value :
                     /\ result.value[t].val.index_name = "recording"
                     /\ result.value[t].val.index = expected

\* the recordings get_stats_multi goes through when it returns
Processed == RemoveAvoided(NamesOf(call.rec_names), call.kw.avoid).value

TripleName(triple) == triple[1] \o "/" \o triple[2] \o "/" \o triple[3]

TripleNames(rec_name) ==
    [i \in DOMAIN TriplesOf(Get(hf, rec_name)) |->
        TripleName(TriplesOf(Get(hf, rec_name))[i])]

\* a sequence without the repetitions of its elements
RECURSIVE FirstAppearances(_)
FirstAppearances(q) ==
    IF q = << >> THEN << >>
    ELSE LET before == FirstAppearances(SubSeq(q, 1, Len(q) - 1))
         IN  IF InSeq(q[Len(q)], before) THEN before ELSE Append(before, q[Len(q)])

\* the attribute of the component of a recording that has a column name
AttrOf(rec_name, col_name, field) ==
    LET triples == TriplesOf(Get(hf, rec_name))
        triple == triples[CHOOSE i \in DOMAIN triples :
                              TripleName(triples[i]) = col_name]
        g == Get(Get(hf, rec_name).groups, triple[1])
    IN  Get(Get(g.sensors, triple[2]).comps, triple[3]).attrs[field]

\* C13 as stated: the columns of every table get_stats_multi returns are the
\* (group, sensor, component) triples of the first recording it goes through.
C13_Original ==
    (StatsMultiDone /\ result.exc = "" /\ Processed # << >>) =>
        \A t \in DOMAIN result.value :
           ColumnSet(result.value[t].val)
               = {TripleNames(Processed[1])[i] :
                     i \in DOMAIN TripleNames(Processed[1])}

\* C13, amended: the columns of every table get_stats_multi returns are the
\* (group, sensor, component) triples of all the recordings it goes through,
\* named group/sensor/component, in the order in which they first appear; a
\* triple only a later recording has adds a column; a cell holds the field's
\* attribute of its recording's component, or the missing-value marker when
\* the recording has no such component.
C13_ColumnUnion ==
    (StatsMultiDone /\ result.exc = "") =>
        \A t \in DOMAIN result.value :
           LET df == result.value[t].val
               field == result.value[t].key
           IN  /\ DictKeys(df.cols)
                     = FirstAppearances(
                           Concat([i \in DOMAIN Processed |->
                                      TripleNames(Processed[i])]))
               /\ \A k \in DOMAIN df.cols : \A i \in DOMAIN Processed :
                     df.cols[k].val[i] =
                        IF InSeq(df.cols[k].key, TripleNames(Processed[i]))
                        THEN AttrOf(Processed[i], df.cols[k].key, field)
                        ELSE NaN

C13_Witness ==
    /\ StatsMultiDone
    /\ result.exc = ""
    /\ call.rec_names.list = <<"r1", "r2">>
    /\ call.kw.fields = <<"mean", "std">>
    /\ DictKeys(DictGet(result.value, "mean").cols)
          = <<"wave/h_sensor/h", "wind/U_sensor/U", "wind/U_sensor/V",
              "wave/h_sensor/z">>
    /\ DictGet(DictGet(result.value, "mean").cols, "wave/h_sensor/z")
          = <<NaN, Num(80)>>
    /\ DictGet(DictGet(result.value, "std").cols, "wind/U_sensor/U")
          = <<Num(21), NaN>>

\* C14: the tables convert_stats makes of what get_stats returned for a
\* recording, with the sensor-to-group map of the recording, are the tables
\* get_stats_multi returns for that recording alone.
C14_CrossPathConsistency ==
    (pc = "converted" /\ call.op = "get_stats") =>
        Outcome(result) =
            Outcome(get_stats_multi(hf, call.kw.fields,
                                    [all |-> FALSE, list |-> <<call.rec_name>>],
                                    << >>))

\* a statistics mapping has, for every sensor, every field asked for, with one
\* row a recording
WellFormed(stats_dict, fields) ==
    \A i \in DOMAIN DictGet(stats_dict, "sensor") :
       \A f \in DOMAIN fields :
          LET sensor_data == DictGet(stats_dict, "sensor")[i].val
          IN  /\ DictHas(sensor_data, fields[f])
              /\ Len(DictGet(sensor_data, fields[f]))
                    = Len(DictGet(stats_dict, "recording"))

\* the column names the converter must give: sensor by sensor, component by
\* component, with the group of the map in front when there is a map
ConvertNames(stats_dict, sensor_dict) ==
    LET sensors == DictGet(stats_dict, "sensor")
    IN  Concat([i \in DOMAIN sensors |->
            [c \in DOMAIN DictGet(sensors[i].val, "component_names") |->
                (IF sensor_dict.kind = "dict"
                 THEN sensor_dict.map[sensors[i].key] \o "/" ELSE "")
                \o sensors[i].key \o "/"
                \o DictGet(sensors[i].val, "component_names")[c]]])

\* the values the converter must give: the column of the component in the
\* array of the field
ConvertValues(stats_dict, field) ==
    LET sensors == DictGet(stats_dict, "sensor")
    IN  Concat([i \in DOMAIN sensors |->
            [c \in DOMAIN DictGet(sensors[i].val, "component_names") |->
                [r \in DOMAIN DictGet(sensors[i].val, field) |->
                    DictGet(sensors[i].val, field)[r][c]]]])

\* C15: for a statistics mapping that has the fields asked for, convert_stats
\* with no sensor-to-group map, or with a map that gives the group of every
\* sensor of the mapping, returns one table a field, indexed by the recording
\* names, whose columns are named sensor/component with no map and
\* group/sensor/component with a map, and hold the component's statistics.
C15_ConverterColumns ==
    ConvertDone =>
        LET stats_dict == call.kw.stats_dict
            sensor_dict == call.kw.sensor_dict
            sensors == DictGet(stats_dict, "sensor")
        IN  (/\ WellFormed(stats_dict, call.kw.fields)
             /\ \/ sensor_dict.kind = "none"
                \/ /\ sensor_dict.kind = "dict"
                   /\ \A i \in DOMAIN sensors :
                         sensors[i].key \in DOMAIN sensor_dict.map) =>
               /\ result.exc = ""
               /\ DictKeys(result.value) = FirstAppearances(call.kw.fields)
               /\ \A t \in DOMAIN result.value :
                     LET df == result.value[t].val
                     IN  /\ df.index_name = "recording"
                         /\ df.index = DictGet(stats_dict, "recording")
                         /\ DictKeys(df.cols)
                               = ConvertNames(stats_dict, sensor_dict)
                         /\ [k \in DOMAIN df.cols |-> df.cols[k].val]
                               = ConvertValues(stats_dict, result.value[t].key)

C15_Witness ==
    /\ ConvertDone
    /\ result.exc = ""
    /\ call.kw.sensor_dict.kind = "dict"
    /\ call.kw.fields = <<"mean", "std">>
    /\ DictGet(call.kw.stats_dict, "recording") = <<"r1", "r2">>
    /\ DictGet(result.value, "std").index = <<"r1", "r2">>
    /\ DictKeys(DictGet(result.value, "std").cols)
          = <<"wave/h_sensor/h", "wind/U_sensor/U", "wind/U_sensor/V">>
    /\ DictGet(DictGet(result.value, "std").cols, "wind/U_sensor/V")
          = <<Num(321), Num(322)>>

\* the same with no map: no group and no separator in front
C15_WitnessNoMap ==
    /\ ConvertDone
    /\ result.exc = ""
    /\ call.kw.sensor_dict.kind = "none"
    /\ call.kw.fields = <<"mean">>
    /\ DictGet(call.kw.stats_dict, "recording") = <<"r1">>
    /\ DictKeys(DictGet(result.value, "mean").cols)
          = <<"h_sensor/h", "U_sensor/U", "U_sensor/V">>

-----------------------------------------------------------------------------
(* Failures of the calls over several recordings *)

\* the places of a list of names at which the store has no such recording
Absent(names) == {i \in DOMAIN names : ~Has(hf, names[i])}

\* the error of the body of the loop for a recording of the store that does
\* not go through it
ErrorOf(rec_name) ==
    IF Exports(rec_name) THEN "KeyError"
    ELSE export_from_hdf(Get(hf, rec_name),
                         [call.kw EXCEPT !.return_as = "dataframe"]).exc

\* C21 as stated: a list with a name the store does not have makes
\* export_from_multirec_hdf fail with the KeyError of the lookup of an absent
\* name, wherever the name is in the list, and return no table.
C21_Original ==
    (MultiDone /\ Absent(NamesOf(call.rec_names)) # {}) =>
        /\ result.exc = "KeyError"
        /\ ~Has(hf, result.read[Len(result.read)])
        /\ result.value = << >>

\* C21, amended: a list with a name the store does not have makes
\* export_from_multirec_hdf fail and return no table, not even the rows of the
\* recordings before the name.  The recordings are taken in list order and the
\* first failure ends the call: the error is the KeyError of the lookup of the
\* absent name when every recording before it goes through, and else the
\* error of the first recording that does not.
C21_UnknownRecordingAborts ==
    MultiDone =>
        LET names == NamesOf(call.rec_names)
        IN  Absent(names) # {} =>
               /\ result.exc # ""
               /\ result.value = << >>
               /\ LET i == FirstFailing(names, 1)
                  IN  /\ result.read = SubSeq(names, 1, i)
                      /\ ~Has(hf, names[i]) => result.exc = "KeyError"
                      /\ Has(hf, names[i]) => result.exc = ErrorOf(names[i])

C21_Witness ==
    /\ MultiDone
    /\ call.rec_names.list = <<"r1", "r9">>
    /\ Passes("r1")
    /\ NRows(TableOf("r1")) >= 2
    /\ result.exc = "KeyError"
    /\ result.value = << >>
    /\ result.read = <<"r1", "r9">>

-----------------------------------------------------------------------------
(* Failures of the statistics *)

GetStatsDone == pc = "done" /\ call.op = "get_stats"

\* two sensor groups of a recording hold a sensor of the same name
SharedSensorName(rec) ==
    \E p, q \in DOMAIN PairsOf(rec) :
       /\ PairsOf(rec)[p].group # PairsOf(rec)[q].group
       /\ PairsOf(rec)[p].sensor.name = PairsOf(rec)[q].sensor.name

\* C22: get_stats of a recording of which two sensor groups hold a sensor of
\* the same name fails: the sensor-to-group index is not built with the group
\* visited last alone.
C22_DuplicateSensorFails ==
    (GetStatsDone /\ SharedSensorName(TheRecording)) => result.exc # ""

\* get_stats_multi that goes through a recording of the store of which a
\* component lacks a requested field fails with a KeyError and returns nothing
StatsMultiMissingFails ==
    (/\ StatsMultiDone
     /\ RemoveAvoided(NamesOf(call.rec_names), call.kw.avoid).exc = ""
     /\ \E i \in DOMAIN Processed :
           Has(hf, Processed[i]) /\ ~Readable(Processed[i], call.kw.fields)) =>
        /\ result.exc = "KeyError"
        /\ result.value = << >>

\* get_stats of a recording of which a component lacks a requested field fails
\* with a KeyError and returns nothing
GetStatsMissingFails ==
    (GetStatsDone /\ ~Readable(call.rec_name, call.kw.fields)) =>
        /\ result.exc = "KeyError"
        /\ result.value = << >>

\* C23: when a component of a recording they go through lacks the attribute
\* of a requested field, get_stats_multi and get_stats fail with a KeyError;
\* they do not return a table or mapping, with the cell missing or without it.
C23_MissingStatisticFails == StatsMultiMissingFails /\ GetStatsMissingFails

\* get_stats_multi stops at a component without the attribute
StatsMultiMissingReached ==
    /\ StatsMultiDone
    /\ call.rec_names.list = <<"r1", "r2">>
    /\ call.kw.avoid = << >>
    /\ Readable("r1", call.kw.fields)
    /\ Has(hf, "r2") /\ ~Readable("r2", call.kw.fields)
    /\ result.exc = "KeyError"
    /\ result.read = <<"r1", "r2">>

-----------------------------------------------------------------------------
(* Frame *)

\* C24: the calls leave the arguments the caller passed as they were: the
\* rec_names list, the avoid list, the fields list, the selection policy.
C24_ArgumentsUnchanged == args = call

-----------------------------------------------------------------------------
(* misc.time_axis *)

TimeAxisDone == pc = "done" /\ call.op = "time_axis"

\* the sample array of the component a call of time_axis names: the component
\* given, or the first of the sensor, in the group of the sensor
SamplesOf(rec, kw) ==
    LET holding == SelectSeq(PairsOf(rec), LAMBDA p :
                       /\ p.sensor.name = kw.sensor_name
                       /\ kw.sensor_dict.kind = "dict" =>
                             p.group = kw.sensor_dict.map[kw.sensor_name])
        sensor == holding[Len(holding)].sensor
    IN  IF kw.component = "None" THEN sensor.comps[1].data
        ELSE Get(sensor.comps, kw.component).data

\* C25: the array time_axis returns has as many values as the sample array of
\* the component, and its first value is the starttime argument.
C25_TimeAxisStart ==
    (TimeAxisDone /\ result.exc = "") =>
        /\ Len(result.value) = Len(SamplesOf(TheRecording, call.kw))
        /\ Len(result.value) >= 1 =>
              REq(result.value[1], Num(call.kw.starttime))

\* the array time_axis returns has as many values as the sample array of the
\* component, and its first value is 0
TimeAxisFromZero ==
    (TimeAxisDone /\ result.exc = "") =>
        /\ Len(result.value) = Len(SamplesOf(TheRecording, call.kw))
        /\ Len(result.value) >= 1 => REq(result.value[1], Num(0))

-----------------------------------------------------------------------------
(* Column keys, and the empty list of recordings *)

\* C26: an export that returns has one data column for each (group, sensor,
\* component) triple it took: no column is overwritten by that of a sensor of
\* the same name, or of the same name_from attribute.
C26_ColumnPerTriple ==
    (SingleDone /\ result.exc = "") =>
        Len(DataColumns(result.value)) = Len(result.resolved)

\* C27: export_from_multirec_hdf with no recording to go through, an empty
\* list or 'all' on a store without recordings, returns an empty table.
C27_EmptyListReturnsEmpty ==
    (MultiDone /\ NamesOf(call.rec_names) = << >>) =>
        /\ result.exc = ""
        /\ result.value = EmptyDataFrame

====
